---- MODULE Spec2Model ----
(***************************************************************************)
(* Content acquisition pipeline of clai (src/src/scraper.ts), with its     *)
(* caller clai (src/src/index.ts) and the CLI (src/src/cli.ts).            *)
(*                                                                         *)
(* scraper.ts holds several versions of the module.  Two of them are       *)
(* modelled as whole pipelines:                                            *)
(*   "wiki"      lines 140-565: SearX, Google, DuckDuckGo, Wikipedia;      *)
(*               getSearchResults throws when all four fail and scrape     *)
(*               turns that into the empty list.                           *)
(*   "emergency" lines 566-879: SearX, Google, DuckDuckGo, then the        *)
(*               emergency constructor; scrape rethrows.                   *)
(* The first version (lines 1-97) is modelled by its isValidUrl only.      *)
(*                                                                         *)
(* A JavaScript string is a sequence of UTF-16 code units; a code unit is  *)
(* written as a one-character TLA+ string, except TAB and HS (a lone high  *)
(* surrogate, "\uD800").                                                   *)
(***************************************************************************)
EXTENDS Integers, Sequences, FiniteSets, TLC

VARIABLES
    version,    \* which version of scraper.ts runs
    input,      \* the argument of scrape
    pc,         \* where scrape is suspended
    engine,     \* index in searchEngines of the adapter being tried
    mirror,     \* index in searxInstances of the instance being tried
    invoked,    \* the adapter invocations so far, with their settlement
    requests,   \* every call of the transport (fetch), in order
    urls,       \* the candidate list of scrape
    ops,        \* the per-URL operations of urls.map, by position
    search,     \* how getSearchResults ended, and its value
    results,    \* the value scrape resolved with
    raised,     \* scrape rejected
    unitIn,     \* the argument of a function applied on its own
    unitOut,    \* its result
    flag,       \* the option on the command line of the CLI ("nocli": clai is called as a library)
    crawlArg,   \* the third argument of the call of clai
    cpc,        \* where the CLI and clai are
    modelCalls, \* the calls of the summarizer, in order
    output,     \* how clai settled, and the sources it reported
    agent,      \* the User-Agent of the search request in flight
    received,   \* what the latest iteration of getSearXResults read of its response
    memo,       \* the cell of once(...) behind openaiClient
    constructed,\* the number of OpenAIWrapper constructed in the process
    clientCalls,\* the calls of openaiClient, in order, with what they returned
    session,    \* the interactive session of the CLI
    anim        \* one call of animateText

\* the variables of the CLI and of clai
front == <<flag, crawlArg, cpc, modelCalls, output>>

\* the variables of the language-model client and of the interactive session
aside == <<memo, constructed, clientCalls, session, anim>>

vars == <<version, input, pc, engine, mirror, invoked, requests, urls, ops,
          search, results, raised, unitIn, unitOut, front, agent, received, aside>>

(***************************************************************************)
(* Bounds of the model.                                                    *)
(***************************************************************************)
MaxLen == 4        \* longest enumerated input string
MaxResp == 6       \* longest list of results or links in a provider response
MaxLinks == 3      \* most <a> elements of a results page given to an adapter alone

(***************************************************************************)
(* Code units and strings.                                                 *)
(***************************************************************************)
SP == " "
TAB == "TAB"
HS == "D800"

LowerSeq == <<"a","b","c","d","e","f","g","h","i","j","k","l","m",
              "n","o","p","q","r","s","t","u","v","w","x","y","z">>
UpperSeq == <<"A","B","C","D","E","F","G","H","I","J","K","L","M",
              "N","O","P","Q","R","S","T","U","V","W","X","Y","Z">>
Range(s) == {s[i] : i \in 1..Len(s)}
Lower == Range(LowerSeq)
Upper == Range(UpperSeq)
Digit == {"0","1","2","3","4","5","6","7","8","9"}

\* the class \s of a JavaScript regular expression, over the modelled code units
IsSpaceChar(c) == c \in {SP, TAB}

ToLowerChar(c) ==
    IF c \in Upper THEN LowerSeq[CHOOSE i \in 1..26 : UpperSeq[i] = c] ELSE c

ToLowerCase(s) == [i \in 1..Len(s) |-> ToLowerChar(s[i])]

StartsWith(s, p) == Len(s) >= Len(p) /\ SubSeq(s, 1, Len(p)) = p

Includes(s, p) == \E i \in 1..(Len(s) - Len(p) + 1) : SubSeq(s, i, i + Len(p) - 1) = p

IncludesChar(s, c) == \E i \in 1..Len(s) : s[i] = c

RECURSIVE Concat(_)
Concat(ss) == IF ss = <<>> THEN <<>> ELSE Head(ss) \o Concat(Tail(ss))

\* Array.prototype.slice(0, n)
Slice(s, n) == SubSeq(s, 1, IF Len(s) < n THEN Len(s) ELSE n)

Http == <<"h","t","t","p">>
HttpScheme == Http \o <<":","/","/">>
HttpsScheme == Http \o <<"s",":","/","/">>

(***************************************************************************)
(* encodeURIComponent.  The unreserved code units are copied, the others   *)
(* are replaced by the %XX escapes of their UTF-8 bytes, and a lone        *)
(* surrogate makes the call throw URIError.                                *)
(***************************************************************************)
Unreserved == Lower \cup Upper \cup Digit \cup {"-", "_", ".", "!", "~", "*", "'", "(", ")"}

PercentEscape(c) ==
    CASE c = SP  -> <<"%","2","0">>
      [] c = TAB -> <<"%","0","9">>
      [] c = ":" -> <<"%","3","A">>
      [] c = "/" -> <<"%","2","F">>
      [] c = "?" -> <<"%","3","F">>
      [] c = "=" -> <<"%","3","D">>
      [] c = "&" -> <<"%","2","6">>
      [] c = "%" -> <<"%","2","5">>

encodeURIComponent(s) ==
    IF IncludesChar(s, HS)
    THEN [threw |-> TRUE, val |-> <<>>]
    ELSE [threw |-> FALSE,
          val |-> Concat([i \in 1..Len(s) |->
                    IF s[i] \in Unreserved THEN <<s[i]>> ELSE PercentEscape(s[i])])]

(***************************************************************************)
(* String.prototype.trim, split(/\s+/) and replace(/\s+/g, r).             *)
(***************************************************************************)
Trim(s) ==
    LET keep == {i \in 1..Len(s) : ~IsSpaceChar(s[i])}
    IN  IF keep = {} THEN <<>>
        ELSE SubSeq(s, CHOOSE i \in keep : \A j \in keep : i <= j,
                       CHOOSE i \in keep : \A j \in keep : j <= i)

\* the first index >= i of s that holds no white space (Len(s) + 1 if none)
RECURSIVE SkipSpace(_, _)
SkipSpace(s, i) ==
    IF i <= Len(s) /\ IsSpaceChar(s[i]) THEN SkipSpace(s, i + 1) ELSE i

RECURSIVE SplitFrom(_, _, _)
SplitFrom(s, i, cur) ==
    IF i > Len(s) THEN <<cur>>
    ELSE IF IsSpaceChar(s[i]) THEN <<cur>> \o SplitFrom(s, SkipSpace(s, i), <<>>)
    ELSE SplitFrom(s, i + 1, Append(cur, s[i]))

SplitWhitespace(s) == SplitFrom(s, 1, <<>>)

RECURSIVE ReplaceFrom(_, _, _)
ReplaceFrom(s, i, r) ==
    IF i > Len(s) THEN <<>>
    ELSE IF IsSpaceChar(s[i]) THEN r \o ReplaceFrom(s, SkipSpace(s, i), r)
    ELSE <<s[i]>> \o ReplaceFrom(s, i + 1, r)

ReplaceWhitespace(s, r) == ReplaceFrom(s, 1, r)

(***************************************************************************)
(* Input classifier.                                                       *)
(***************************************************************************)
\* first version: return !input.includes(' ')
isValidUrlFirst(in) == ~IncludesChar(in, SP)

\* /^[^\s]+\.[a-z]{2,}$/i
TldPattern(in) ==
    \E k \in 2..(Len(in) - 2) :
        /\ \A i \in 1..(k - 1) : ~IsSpaceChar(in[i])
        /\ in[k] = "."
        /\ \A i \in (k + 1)..Len(in) : in[i] \in Lower \cup Upper

\* a classifier that takes only inputs with a scheme for URLs
isValidUrlSchemeOnly(in) == StartsWith(in, Http)

isValidUrl(in) ==
    IF IncludesChar(in, SP) THEN FALSE ELSE TldPattern(in)

\* a normalizer that prefixes without looking at the scheme
normalizeUrlAlways(url) == HttpsScheme \o url

normalizeUrl(url) ==
    IF ~StartsWith(url, HttpScheme) /\ ~StartsWith(url, HttpsScheme)
    THEN HttpsScheme \o url
    ELSE url

(***************************************************************************)
(* getEmergencyResults (emergency version).  A result is                   *)
(* [threw |-> TRUE] or [threw |-> FALSE, val |-> the list].                *)
(***************************************************************************)
WikiArticlePrefix ==
    HttpsScheme \o <<"e","n",".","w","i","k","i","p","e","d","i","a",".","o","r","g",
                     "/","w","i","k","i","/">>
RedditSearchPrefix ==
    HttpsScheme \o <<"w","w","w",".","r","e","d","d","i","t",".","c","o","m",
                     "/","s","e","a","r","c","h","/","?","q","=">>
DotCom == <<".","c","o","m">>
DotOrg == <<".","o","r","g">>
Www == <<"w","w","w",".">>

EmergencyWords(query) ==
    LET cleanQuery ==
            Trim(SelectSeq(ToLowerCase(query),
                           LAMBDA c : c \in Lower \cup Digit \/ IsSpaceChar(c)))
    IN  SelectSeq(SplitWhitespace(cleanQuery), LAMBDA word : Len(word) > 2)

getEmergencyResults(query) ==
    LET words == EmergencyWords(query)
        article == encodeURIComponent(ReplaceWhitespace(query, <<"_">>))
        reddit == encodeURIComponent(query)
        mainWord == words[1]
        guesses ==
            IF Len(mainWord) > 3
            THEN <<HttpsScheme \o mainWord \o DotCom,
                   HttpsScheme \o Www \o mainWord \o DotOrg>>
            ELSE <<>>
        pushed ==
            IF Len(words) > 0
            THEN <<WikiArticlePrefix \o article.val>> \o guesses
                   \o <<RedditSearchPrefix \o reddit.val>>
            ELSE <<>>
    IN  IF article.threw \/ reddit.threw
        THEN [threw |-> TRUE, val |-> <<>>]
        ELSE [threw |-> FALSE,
              val |-> IF Len(pushed) > 0
                      THEN Slice(pushed, 3)
                      ELSE <<WikiArticlePrefix \o article.val>>]

(***************************************************************************)
(* decodeURIComponent: the inverse of the escapes above; a "%" that does   *)
(* not start an escape makes the call throw URIError.                      *)
(***************************************************************************)
Escaped == {SP, TAB, ":", "/", "?", "=", "&", "%"}

RECURSIVE DecodeFrom(_, _)
DecodeFrom(s, i) ==
    IF i > Len(s) THEN [threw |-> FALSE, val |-> <<>>]
    ELSE IF s[i] # "%"
    THEN LET rest == DecodeFrom(s, i + 1)
         IN  [threw |-> rest.threw, val |-> <<s[i]>> \o rest.val]
    ELSE LET hit == {c \in Escaped : i + 2 <= Len(s) /\ SubSeq(s, i, i + 2) = PercentEscape(c)}
         IN  IF hit = {} THEN [threw |-> TRUE, val |-> <<>>]
             ELSE LET rest == DecodeFrom(s, i + 3)
                  IN  [threw |-> rest.threw, val |-> <<CHOOSE c \in hit : TRUE>> \o rest.val]

decodeURIComponent(s) ==
    LET r == DecodeFrom(s, 1) IN IF r.threw THEN [threw |-> TRUE, val |-> <<>>] ELSE r

(***************************************************************************)
(* Provider responses.  A response of the transport is a record with a     *)
(* field kind: "throw" (fetch, text() or json() rejected), "notok"         *)
(* (response.ok is false) or "ok" (with the parsed body).  A text that is  *)
(* only searched for signature phrases is modelled by the set of the       *)
(* signature phrases it contains.                                          *)
(***************************************************************************)
Failed == [threw |-> TRUE, val |-> <<>>]
Returned(list) == [threw |-> FALSE, val |-> list]

WikipediaOrg == <<"w","i","k","i","p","e","d","i","a",".","o","r","g">>
GoogleCom == <<"g","o","o","g","l","e",".","c","o","m">>
YoutubeCom == <<"y","o","u","t","u","b","e",".","c","o","m">>

IsHttpUrl(u) == StartsWith(u, HttpScheme) \/ StartsWith(u, HttpsScheme)

\* the loop of getSearXResults over data.results.slice(0, 5)
RECURSIVE SearXCollect(_, _)
SearXCollect(rs, acc) ==
    IF rs = <<>> THEN acc
    ELSE LET u == Head(rs)
             keep == /\ u # <<>>
                     /\ IsHttpUrl(u)
                     /\ ~Includes(u, WikipediaOrg)
                     /\ u \notin Range(acc)
         IN  SearXCollect(Tail(rs), IF keep THEN Append(acc, u) ELSE acc)

\* an iteration that does not look at response.ok
SearXInstanceAnyStatus(resp) ==
    IF resp.kind = "throw" \/ ~resp.array THEN <<>>
    ELSE Slice(SearXCollect(Slice(resp.results, 5), <<>>), 3)

\* one iteration of the instance loop: the list returned, or <<>> to go on
\* resp.results is the array data.results, resp.array tells whether it is one
SearXInstance(resp) ==
    IF resp.kind # "ok" THEN <<>>
    ELSE IF ~resp.array THEN <<>>
    ELSE Slice(SearXCollect(Slice(resp.results, 5), <<>>), 3)

SearxInstances(v) == IF v = "wiki" THEN 2 ELSE 4

\* getWikipediaResults after the request: resp.shape tells whether data is an
\* array of at least 4 elements whose 4th is an array, resp.results is data[3]
getWikipediaResults(resp) ==
    IF resp.kind # "ok" THEN Failed
    ELSE IF ~resp.shape THEN Failed
    ELSE LET list == SelectSeq(resp.results, LAMBDA u : StartsWith(u, HttpsScheme))
         IN  IF Len(list) > 0 THEN Returned(list) ELSE Failed

\* href.match(/\/url\?q=([^&]+)/): the capture group, or <<>> without a match
UrlQ == <<"/","u","r","l","?","q","=">>

RECURSIVE UntilAmp(_, _)
UntilAmp(s, i) ==
    IF i > Len(s) \/ s[i] = "&" THEN <<>> ELSE <<s[i]>> \o UntilAmp(s, i + 1)

UrlMatch(href) ==
    LET at == {i \in 1..Len(href) : /\ i + 7 <= Len(href)
                                    /\ SubSeq(href, i, i + 6) = UrlQ
                                    /\ href[i + 7] # "&"}
    IN  IF at = {} THEN <<>>
        ELSE UntilAmp(href, (CHOOSE i \in at : \A j \in at : i <= j) + 7)

NotGoogle(u) == ~Includes(u, GoogleCom) /\ ~Includes(u, YoutubeCom)

\* cheerioDoc('a[href^="/url?q="]').each(...)
RECURSIVE GoogleWrapped(_, _)
GoogleWrapped(links, acc) ==
    IF links = <<>> THEN acc
    ELSE LET href == Head(links)
             m == UrlMatch(href)
             d == decodeURIComponent(m)
             keep == /\ StartsWith(href, UrlQ)
                     /\ m # <<>>
                     /\ ~d.threw
                     /\ NotGoogle(d.val)
                     /\ IsHttpUrl(d.val)
         IN  GoogleWrapped(Tail(links), IF keep THEN Append(acc, d.val) ELSE acc)

\* cheerioDoc('a[href^="http"]').each(...)
RECURSIVE GoogleDirect(_, _)
GoogleDirect(links, acc) ==
    IF links = <<>> THEN acc
    ELSE LET href == Head(links)
             keep == /\ StartsWith(href, Http)
                     /\ NotGoogle(href)
                     /\ href \notin Range(acc)
         IN  GoogleDirect(Tail(links), IF keep THEN Append(acc, href) ELSE acc)

\* a copy of urls that keeps repeated entries
UniqueKeepsAll(list, acc) == acc \o list

\* [...new Set(urls)]
RECURSIVE Unique(_, _)
Unique(list, acc) ==
    IF list = <<>> THEN acc
    ELSE Unique(Tail(list), IF Head(list) \in Range(acc) THEN acc ELSE Append(acc, Head(list)))

\* getGoogleResults after the request: resp.signatures are the block-page
\* phrases the markup contains, resp.links the href of its <a> elements in
\* document order.  The emergency version has no block-page check.
\* a check that knows only the first of the two phrases
GoogleBlockedFirstPhrase(v, resp) ==
    v = "wiki" /\ "trouble accessing Google Search" \in resp.signatures

GoogleBlocked(v, resp) == v = "wiki" /\ resp.signatures # {}

getGoogleResults(v, resp) ==
    IF resp.kind = "throw" THEN Failed
    ELSE IF GoogleBlocked(v, resp) THEN Failed
    ELSE LET found == GoogleDirect(resp.links, GoogleWrapped(resp.links, <<>>))
             uniqueUrls == Slice(Unique(found, <<>>), 3)
         IN  IF Len(uniqueUrls) = 0 THEN Failed ELSE Returned(uniqueUrls)

\* a check that reads data.Abstract only
DuckDuckGoBlockedAbstractOnly(v, resp) ==
    v = "wiki" /\ resp.Abstract # {}

\* getDuckDuckGoResults after the request.  resp.Abstract and resp.AbstractText
\* are the sets of soft-block phrases the two fields contain; resp.topics are
\* the FirstURL of data.RelatedTopics (<<>> for a topic without one).
DuckDuckGoBlocked(v, resp) ==
    v = "wiki" /\ (resp.Abstract # {} \/ resp.AbstractText # {})

RECURSIVE PushTopics(_, _)
PushTopics(topics, acc) ==
    IF topics = <<>> THEN acc
    ELSE PushTopics(Tail(topics), IF Head(topics) # <<>> THEN Append(acc, Head(topics)) ELSE acc)

\* an adapter without the fallback to data.DefinitionURL
getDuckDuckGoResultsDirectOnly(v, resp) ==
    IF resp.kind = "throw" THEN Failed
    ELSE IF v = "wiki" /\ resp.kind = "notok" THEN Failed
    ELSE IF DuckDuckGoBlocked(v, resp) THEN Failed
    ELSE LET direct == PushTopics(Slice(resp.topics, 2),
                                  IF resp.AbstractURL # <<>> THEN <<resp.AbstractURL>> ELSE <<>>)
         IN  IF Len(direct) = 0 THEN Failed ELSE Returned(direct)

getDuckDuckGoResults(v, resp) ==
    IF resp.kind = "throw" THEN Failed
    ELSE IF v = "wiki" /\ resp.kind = "notok" THEN Failed
    ELSE IF DuckDuckGoBlocked(v, resp) THEN Failed
    ELSE LET direct == PushTopics(Slice(resp.topics, 2),
                                  IF resp.AbstractURL # <<>> THEN <<resp.AbstractURL>> ELSE <<>>)
             list == IF v = "wiki" /\ Len(direct) = 0 /\ resp.DefinitionURL # <<>>
                     THEN <<resp.DefinitionURL>>
                     ELSE direct
         IN  IF Len(list) = 0 THEN Failed ELSE Returned(list)

(***************************************************************************)
(* The environment: what the providers and the pages may answer.           *)
(***************************************************************************)
SeqsUpTo(S, n) == UNION {[1..k -> S] : k \in 0..n}

UA == HttpsScheme \o <<"a",".","i","o">>
UB == HttpScheme \o <<"b",".","i","o">>
UW == HttpsScheme \o WikipediaOrg
UC == HttpsScheme \o <<"c",".","i","o">>
UD == HttpScheme \o <<"d",".","i","o">>

PipePool == {UA, UB}

NoResponse == [kind |-> "none"]

\* a response of a SearX instance: the fetch throws, or the status is OK or
\* not and the body has an array data.results or none
SearXResponses(pool, n) ==
    {[kind |-> k, array |-> FALSE, results |-> <<>>] : k \in {"throw", "notok", "ok"}}
    \cup {[kind |-> "ok", array |-> TRUE, results |-> r] : r \in SeqsUpTo(pool, n)}
    \cup {[kind |-> "notok", array |-> TRUE, results |-> r] : r \in SeqsUpTo(pool, 1)}
    \cup {[kind |-> "ok", array |-> TRUE, results |-> <<UW>>]}

WikipediaResponses(pool, n) ==
    {[kind |-> k, shape |-> FALSE, results |-> <<>>] : k \in {"throw", "notok", "ok"}}
    \cup {[kind |-> "ok", shape |-> TRUE, results |-> r] : r \in SeqsUpTo(pool, n)}

BlockPhrases == {"trouble accessing Google Search", "unusual traffic"}
SoftBlockPhrases == {"redirects users to a non-JavaScript site", "DuckDuckGo redirects users"}

GoogleLinks ==
    {UA, UB, HttpsScheme \o GoogleCom,
     UrlQ \o UA \o <<"&","s","a">>,
     UrlQ \o <<"h","t","t","p","%","3","A","%","2","F","%","2","F","b",".","i","o">>,
     UrlQ \o <<"%">>}

GoogleResponses(links, n) ==
    {[kind |-> "throw", signatures |-> {}, links |-> <<>>]}
    \cup {[kind |-> k, signatures |-> sg, links |-> l] :
            k \in {"ok", "notok"}, sg \in SUBSET BlockPhrases, l \in SeqsUpTo(links, n)}

\* result pages with four links, enough for more than three distinct results
GoogleLongLinks ==
    {UA, UC, HttpsScheme \o YoutubeCom,
     UrlQ \o UD \o <<"&","s","a">>,
     UrlQ \o <<"h","t","t","p","%","3","A","%","2","F","%","2","F","b",".","i","o">>}

GoogleLongResponses ==
    {[kind |-> "ok", signatures |-> {}, links |-> l] : l \in [1..4 -> GoogleLongLinks]}

DuckDuckGoResponses(pool, n) ==
    {[kind |-> "throw", Abstract |-> {}, AbstractText |-> {}, AbstractURL |-> <<>>,
      topics |-> <<>>, DefinitionURL |-> <<>>]}
    \cup {[kind |-> k, Abstract |-> a, AbstractText |-> t, AbstractURL |-> u,
           topics |-> ts, DefinitionURL |-> d] :
            k \in {"ok", "notok"}, a \in SUBSET SoftBlockPhrases,
            t \in {{}, SoftBlockPhrases}, u \in pool \cup {<<>>},
            ts \in SeqsUpTo(pool \cup {<<>>}, n), d \in {<<>>, UA}}

\* data.content.length > 200
MinContentLength == 200

\* a fetched page: its <title>, its body text and the href of link[rel=canonical].
\* The body text is given by its length and by the phrases it includes.
NoText == [length |-> 0, phrases |-> {}]
NoPage == [title |-> <<>>, body |-> NoText, canonical |-> <<>>]
Pages == {[title |-> <<"t">>, canonical |-> <<>>,
           body |-> [length |-> MinContentLength + 1, phrases |-> {"Error"}]],
          [title |-> <<"t">>, canonical |-> UB,
           body |-> [length |-> MinContentLength + 1, phrases |-> {"404"}]]}

extractDataFromHtml(html) ==
    [title |-> html.title, content |-> html.body, url |-> html.canonical]

\* what the fetch of a page may give: the transport throws, or it settles
\* with a status and a body that response.text() reads or fails to read
PageResponses ==
    {[kind |-> "throw", status |-> 0, text |-> FALSE, page |-> NoPage]}
    \cup {[kind |-> "settled", status |-> st, text |-> FALSE, page |-> NoPage] :
             st \in {200, 404}}
    \cup {[kind |-> "settled", status |-> st, text |-> TRUE, page |-> pg] :
             st \in {200, 404}, pg \in Pages}

\* a fetchHtml that rejects a status outside 200..299
fetchHtmlChecked(resp) ==
    IF resp.kind = "throw" \/ ~resp.text \/ resp.status < 200 \/ resp.status > 299
    THEN [threw |-> TRUE, val |-> NoPage]
    ELSE [threw |-> FALSE, val |-> resp.page]

\* fetchHtml: `await enhancedFetch(url)`, then `response.text()`
fetchHtml(resp) ==
    IF resp.kind = "throw" THEN [threw |-> TRUE, val |-> NoPage]
    ELSE IF ~resp.text THEN [threw |-> TRUE, val |-> NoPage]
    ELSE [threw |-> FALSE, val |-> resp.page]

(***************************************************************************)
(* enhancedFetch.  A header object is a function from header names to      *)
(* values; an object literal with spreads is built left to right.          *)
(***************************************************************************)
userAgents ==
    <<"Chrome/131 Macintosh", "Chrome/131 Windows", "Firefox/132 Macintosh",
      "Firefox/132 Windows", "Safari/18.1 Macintosh", "Edg/131 Windows">>

\* userAgents[Math.floor(Math.random() * userAgents.length)]: any of the pool.
\* `agent` keeps the pick of the latest search request until getSearchResults
\* has returned and the first page is fetched.
\* The DuckDuckGo adapter of the emergency version calls fetch without
\* headers, which leaves the User-Agent to the runtime.
NoAgent == "none"
getRandomUserAgent(v, name) ==
    IF v = "emergency" /\ name = "DuckDuckGo" THEN {"runtime default"}
    ELSE Range(userAgents)

DefaultHeaders(ua) ==
    ("User-Agent" :> ua)
    @@ ("Accept" :> "text/html,application/xhtml+xml,application/xml;q=0.9,*/*;q=0.8")
    @@ ("Accept-Language" :> "en-US,en;q=0.9")
    @@ ("Accept-Encoding" :> "gzip, deflate, br")
    @@ ("sec-ch-ua" :> "Chromium;v=121")
    @@ ("sec-ch-ua-mobile" :> "?0")
    @@ ("sec-ch-ua-platform" :> "macOS")
    @@ ("Sec-Fetch-Dest" :> "document")
    @@ ("Sec-Fetch-Mode" :> "navigate")
    @@ ("Sec-Fetch-Site" :> "cross-site")
    @@ ("Sec-Fetch-User" :> "?1")
    @@ ("Upgrade-Insecure-Requests" :> "1")
    @@ ("Cache-Control" :> "no-cache")
    @@ ("Pragma" :> "no-cache")

\* { ...options.headers, ...defaults }: the defaults written last
SpreadUnder(base, over) ==
    [h \in DOMAIN base \cup DOMAIN over |-> IF h \in DOMAIN base THEN base[h] ELSE over[h]]

\* { ...base, ...over }: a key of over replaces the same key of base
Spread(base, over) ==
    [h \in DOMAIN base \cup DOMAIN over |-> IF h \in DOMAIN over THEN over[h] ELSE base[h]]

\* the calls of fetch that enhancedFetch(url, options) makes, with the
\* User-Agent that getRandomUserAgent picked
enhancedFetch(url, options, ua) ==
    LET headers == Spread(DefaultHeaders(ua), options.headers)
    IN  <<[url |-> url, headers |-> headers]>>

(***************************************************************************)
(* getSearchResults.                                                       *)
(***************************************************************************)
searchEngines(v) ==
    IF v = "wiki" THEN <<"SearX", "Google", "DuckDuckGo", "Wikipedia">>
    ELSE <<"SearX", "Google", "DuckDuckGo">>

EngineName == searchEngines(version)[engine]

Responses(name) ==
    CASE name = "SearX" -> SearXResponses(PipePool, MaxResp)
      [] name = "Google" -> GoogleResponses({UA, UrlQ \o UB}, MaxLinks)
      [] name = "DuckDuckGo" -> DuckDuckGoResponses({UA}, MaxLinks)
      [] name = "Wikipedia" -> WikipediaResponses(PipePool, MaxResp)

Request(to, q) == [to |-> to, q |-> q]

Settled(st, out) ==
    [invoked EXCEPT ![Len(invoked)].st = st, ![Len(invoked)].out = out]

\* a loop that logs the success and goes on with the next adapter
LoopExitsNever(r) == FALSE

\* a loop that takes a success only when the request went out with another
\* User-Agent than the last of the pool
LoopExitsByAgent(r) == ~r.threw /\ agent # userAgents[Len(userAgents)]

\* `return result` inside the try of the loop: the loop ends at a success
LoopExits(r) == ~r.threw

\* a loop that tries the failed adapter again
NextEngineSame(e) == e

\* the loop goes on with the adapter after the failed one
NextEngine(e) == e + 1

\* after the last adapter: `throw new Error(...)`, caught by scrape, which
\* returns []; or `return getEmergencyResults(query)`, whose exception scrape
\* rethrows
Exhausted ==
    IF version = "wiki"
    THEN /\ search' = [st |-> "raised", val |-> <<>>]
         /\ results' = <<>>
         /\ pc' = "done"
         /\ UNCHANGED <<urls, raised>>
    ELSE LET e == getEmergencyResults(input)
         IN  IF e.threw
             THEN /\ search' = [st |-> "raised", val |-> <<>>]
                  /\ raised' = TRUE
                  /\ pc' = "done"
                  /\ UNCHANGED <<urls, results>>
             ELSE /\ search' = [st |-> "returned", val |-> e.val]
                  /\ urls' = e.val
                  /\ pc' = "map"
                  /\ UNCHANGED <<results, raised>>

\* the adapter at `engine` has settled with r
AdapterSettled(r) ==
    IF LoopExits(r)
    THEN /\ search' = [st |-> "returned", val |-> r.val]
         /\ urls' = r.val
         /\ pc' = "map"
         /\ UNCHANGED <<engine, results, raised>>
    ELSE IF engine < Len(searchEngines(version))
    THEN /\ engine' = NextEngine(engine)
         /\ pc' = "call"
         /\ UNCHANGED <<search, urls, results, raised>>
    ELSE Exhausted /\ UNCHANGED engine

(***************************************************************************)
(* scrape.                                                                 *)
(***************************************************************************)
Classify ==
    /\ pc = "start"
    /\ IF isValidUrl(input)
       THEN /\ urls' = <<normalizeUrl(input)>>
            /\ pc' = "map"
            /\ UNCHANGED engine
       ELSE /\ engine' = 1
            /\ pc' = "call"
            /\ UNCHANGED urls
    /\ UNCHANGED <<version, input, mirror, invoked, requests, ops, search, results,
                   raised, unitIn, unitOut, front, aside, agent, received>>

\* the next adapter is called while a request is still awaited
CanInvokeWhileWaiting == pc \in {"call", "wait"}

\* `await engine.fn(query)`: an adapter is called when none is awaited
CanInvoke == pc = "call"

\* engine.fn(query) up to its first await.  The request URL is built with
\* encodeURIComponent(query); when that throws, no request is made and the
\* adapter fails at once (in getSearXResults every iteration catches it).
Invoke ==
    /\ CanInvoke
    /\ LET enc == encodeURIComponent(input)
           call == [name |-> EngineName, query |-> input]
       IN  IF enc.threw
           THEN /\ invoked' = Append(invoked, call @@ [st |-> "failed", out |-> <<>>])
                /\ AdapterSettled(Failed)
                /\ UNCHANGED <<mirror, requests, agent>>
           ELSE /\ invoked' = Append(invoked, call @@ [st |-> "inflight", out |-> <<>>])
                /\ requests' = Append(requests, Request(<<EngineName, 1>>, enc.val))
                /\ agent' \in getRandomUserAgent(version, EngineName)
                /\ mirror' = 1
                /\ pc' = "wait"
                /\ UNCHANGED <<engine, search, urls, results, raised>>
    /\ received' = NoResponse
    /\ UNCHANGED <<version, input, ops, unitIn, unitOut, front, aside>>

\* the response of a SearX instance arrives
SearXRespond ==
    /\ pc = "wait"
    /\ EngineName = "SearX"
    /\ \E resp \in Responses("SearX") :
         LET list == SearXInstance(resp)
         IN  /\ received' = [resp EXCEPT !.results = Slice(resp.results, 5)]
             /\ IF list # <<>>
                THEN /\ invoked' = Settled("ok", list)
                     /\ AdapterSettled(Returned(list))
                     /\ UNCHANGED <<mirror, requests, agent>>
                ELSE IF mirror < SearxInstances(version)
                THEN /\ mirror' = mirror + 1
                     /\ agent' \in getRandomUserAgent(version, "SearX")
                     /\ requests' = Append(requests,
                                       Request(<<"SearX", mirror + 1>>, requests[Len(requests)].q))
                     /\ UNCHANGED <<pc, engine, invoked, search, urls, results, raised>>
                ELSE /\ invoked' = Settled("failed", <<>>)
                     /\ AdapterSettled(Failed)
                     /\ UNCHANGED <<mirror, requests, agent>>
    /\ UNCHANGED <<version, input, ops, unitIn, unitOut, front, aside>>

AdapterResult(name, resp) ==
    CASE name = "Google" -> getGoogleResults(version, resp)
      [] name = "DuckDuckGo" -> getDuckDuckGoResults(version, resp)
      [] name = "Wikipedia" -> getWikipediaResults(resp)

\* the response of Google, DuckDuckGo or Wikipedia arrives
Respond ==
    /\ pc = "wait"
    /\ EngineName # "SearX"
    /\ \E resp \in Responses(EngineName) :
         LET r == AdapterResult(EngineName, resp)
         IN  /\ invoked' = Settled(IF r.threw THEN "failed" ELSE "ok", r.val)
             /\ AdapterSettled(r)
    /\ UNCHANGED <<version, input, mirror, requests, ops, unitIn, unitOut, front, aside, agent, received>>

\* urls.map(async (url) => ...): the callback runs up to `await fetchHtml(url)`,
\* which has called fetch
IssueFetch ==
    /\ pc = "map"
    /\ Len(ops) < Len(urls)
    /\ LET url == urls[Len(ops) + 1]
       IN  /\ ops' = Append(ops, [url |-> url, st |-> "pending", page |-> NoPage, at |-> 0])
           /\ requests' = Append(requests, Request(<<"page", 0>>, url))
    /\ agent' = NoAgent
    /\ received' = NoResponse
    /\ UNCHANGED <<version, input, pc, engine, mirror, invoked, urls, search, results,
                   raised, unitIn, unitOut, front, aside>>

\* `await Promise.all(...)`: scrape is suspended on the mapped promises
AwaitAll ==
    /\ pc = "map"
    /\ Len(ops) = Len(urls)
    /\ pc' = "await"
    /\ agent' = NoAgent
    /\ received' = NoResponse
    /\ UNCHANGED <<version, input, engine, mirror, invoked, requests, urls, ops, search,
                   results, raised, unitIn, unitOut, front, aside>>

\* a loop that awaits each fetch before it issues the next
CanSettleDuringMap(i) == pc \in {"map", "await"} /\ ops[i].st = "pending"

\* fetches awaited one after the other: a fetch settles only after those
\* before it
CanSettleInOrder(i) ==
    pc = "await" /\ ops[i].st = "pending" /\ \A j \in 1..(i - 1) : ops[j].st # "pending"

\* a callback is resumed only while scrape is suspended
CanSettle(i) == pc = "await" /\ ops[i].st = "pending"

\* the order of completion is recorded for lists of up to MaxOrdered candidates
MaxOrdered == 2

\* the place of the next settlement in the order of completion
Completion ==
    IF Len(ops) <= MaxOrdered
    THEN Cardinality({j \in 1..Len(ops) : ops[j].st # "pending"}) + 1
    ELSE 0

\* fetchHtml and extractDataFromHtml of one URL succeed
FetchOk(i) ==
    /\ i \in 1..Len(ops)
    /\ CanSettle(i)
    /\ \E html \in {fetchHtml(resp) : resp \in PageResponses} :
         /\ ~html.threw
         /\ ops' = [ops EXCEPT ![i].st = "ok", ![i].page = html.val, ![i].at = Completion]
    /\ UNCHANGED <<version, input, pc, engine, mirror, invoked, requests, urls, search,
                   results, raised, unitIn, unitOut, front, aside, agent, received>>

\* fetchHtml or extractDataFromHtml of one URL throws: the catch returns null
FetchFail(i) ==
    /\ i \in 1..Len(ops)
    /\ CanSettle(i)
    /\ {resp \in PageResponses : fetchHtml(resp).threw} # {}
    /\ ops' = [ops EXCEPT ![i].st = "failed", ![i].at = Completion]
    /\ UNCHANGED <<version, input, pc, engine, mirror, invoked, requests, urls, search,
                   results, raised, unitIn, unitOut, front, aside, agent, received>>

\* { url, ...data }: the url of the extractor written last
ScrapedDataCanonical(op) == extractDataFromHtml(op.page)

\* { ...data, url }
ScrapedData(op) ==
    LET data == extractDataFromHtml(op.page)
    IN  [title |-> data.title, content |-> data.content, url |-> op.url]

NoRecord == [title |-> <<>>, content |-> NoText, url |-> <<>>]

\* the callback of urls.map on one URL: the record, or null from the catch
callback(url, resp) ==
    LET html == fetchHtml(resp)
    IN  IF html.threw THEN [null |-> TRUE, data |-> NoRecord]
        ELSE [null |-> FALSE, data |-> ScrapedData([url |-> url, page |-> html.val])]

\* the callback without its catch: Promise.all settles at the first failure
PromiseAllFailFast ==
    \/ \A i \in 1..Len(ops) : ops[i].st # "pending"
    \/ \E i \in 1..Len(ops) : ops[i].st = "failed"

\* Promise.all is fulfilled once every mapped promise is
PromiseAllDone == \A i \in 1..Len(ops) : ops[i].st # "pending"

\* the result list without the filter
NonNullUnfiltered(os) == [i \in 1..Len(os) |-> ScrapedData(os[i])]

\* the records in the order in which the fetches completed
NonNullByCompletion(os) ==
    LET kept == {i \in 1..Len(os) : os[i].st = "ok"}
        nth(j) == CHOOSE i \in kept :
                      Cardinality({k \in kept : \/ os[k].at < os[i].at
                                                 \/ (os[k].at = os[i].at /\ k <= i)}) = j
    IN  [j \in 1..Cardinality(kept) |-> ScrapedData(os[nth(j)])]

\* results.filter(result => result !== null)
NonNull(os) ==
    LET kept == SelectSeq(os, LAMBDA op : op.st = "ok")
    IN  [i \in 1..Len(kept) |-> ScrapedData(kept[i])]

Return ==
    /\ pc = "await"
    /\ PromiseAllDone
    /\ results' = NonNull(ops)
    /\ pc' = "done"
    /\ UNCHANGED <<version, input, engine, mirror, invoked, requests, urls, ops, search,
                   raised, unitIn, unitOut, front, aside, agent, received>>

(***************************************************************************)
(* clai (src/src/index.ts:73-126) and the CLI (src/src/cli.ts:13-54,       *)
(* 120-166).                                                               *)
(***************************************************************************)
\* a parameter that defaults to true
useCrawlingByDefault(arg) == arg # "false"

\* `useCrawling = false`: the default parameter
useCrawling(arg) == IF arg = "omitted" THEN FALSE ELSE arg = "true"

KnowledgeBase == <<"OpenAI", SP, "Knowledge", SP, "Base">>

\* a filter that looks at the length only
isUsefulByLength(data) == data.content.length > MinContentLength

\* the predicate of scrapedData.filter
isUseful(data) ==
    /\ data.content.length > MinContentLength
    /\ "Wikipedia does not have an article" \notin data.content.phrases
    /\ "page not found" \notin data.content.phrases
    /\ "404" \notin data.content.phrases
    /\ "error" \notin data.content.phrases

usefulData == SelectSeq(results, isUseful)

\* `Content from ${data.url}:\n${data.content}` of each useful record, joined
combinedContent(data) ==
    [i \in 1..Len(data) |-> [from |-> data[i].url, content |-> data[i].content]]

NoOutput == [st |-> "none", sources |-> <<>>]
Rejected == [st |-> "rejected", sources |-> <<>>]

\* main of the CLI: commander parses the command line.  The program declares
\* the argument [input...] and no option besides --version, so that an option
\* -c or --crawl ends the process with an unknown-option error before the
\* action runs; otherwise the action calls analyzeInput, which calls
\* clai(input, openAIKey).
main ==
    /\ cpc = "main"
    /\ IF flag # "none"
       THEN /\ cpc' = "exit"
            /\ UNCHANGED crawlArg
       ELSE /\ cpc' = "clai"
            /\ crawlArg' = "omitted"
    /\ UNCHANGED <<version, input, pc, engine, mirror, invoked, requests, urls, ops,
                   search, results, raised, unitIn, unitOut, aside, flag, modelCalls, output, agent, received>>

\* clai up to its first await
clai ==
    /\ cpc = "clai"
    /\ IF ~useCrawling(crawlArg)
       THEN /\ modelCalls' = Append(modelCalls, [fn |-> "summarizeQuery", arg |-> input])
            /\ cpc' = "model"
            /\ UNCHANGED pc
       ELSE /\ pc' = "start"
            /\ cpc' = "scrape"
            /\ UNCHANGED modelCalls
    /\ UNCHANGED <<version, input, engine, mirror, invoked, requests, urls, ops,
                   search, results, raised, unitIn, unitOut, aside, flag, crawlArg, output, agent, received>>

\* `await scrape(input)` has settled: a rejection passes through clai;
\* otherwise the records are filtered and the summarizer is called
Scraped ==
    /\ cpc = "scrape"
    /\ pc = "done"
    /\ IF raised
       THEN /\ cpc' = "rejected"
            /\ output' = Rejected
            /\ UNCHANGED modelCalls
       ELSE /\ modelCalls' =
                 Append(modelCalls,
                        IF Len(usefulData) > 0
                        THEN [fn |-> "summarize", arg |-> combinedContent(usefulData)]
                        ELSE [fn |-> "summarizeQuery", arg |-> input])
            /\ cpc' = "model"
            /\ UNCHANGED output
    /\ UNCHANGED <<version, input, pc, engine, mirror, invoked, requests, urls, ops,
                   search, results, raised, unitIn, unitOut, aside, flag, crawlArg, agent, received>>

\* the awaited call of the summarizer settles: clai returns its result with
\* the sources, or the rejection passes through
ModelRespond ==
    /\ cpc = "model"
    /\ \/ /\ cpc' = "returned"
          /\ output' =
               [st |-> "returned",
                sources |-> IF modelCalls[Len(modelCalls)].fn = "summarize"
                            THEN [i \in 1..Len(usefulData) |-> usefulData[i].url]
                            ELSE <<KnowledgeBase>>]
       \/ /\ cpc' = "rejected"
          /\ output' = Rejected
    /\ UNCHANGED <<version, input, pc, engine, mirror, invoked, requests, urls, ops,
                   search, results, raised, unitIn, unitOut, aside, flag, crawlArg, modelCalls, agent, received>>

InUrl == <<"a",".","i","o">>
InQuery == <<"a","b","c","d",SP,"e">>
InShort == <<"a",SP,"b">>
InSurrogate == <<HS,SP,"a","b","c">>
InHttp == HttpScheme \o <<"b",".","i","o">>
PipelineInputs == {InUrl, InHttp, InQuery, InShort, InSurrogate}

NoCall == [fn |-> "none"]

\* animateText before it is called
NoAnim == [at |-> "none", text |-> <<>>, currentIndex |-> 0, shouldComplete |-> FALSE,
           listener |-> FALSE, raw |-> FALSE, flowing |-> FALSE, written |-> <<>>,
           chunks |-> <<>>]

\* the session before main runs
MaxDepth == 3       \* nested calls of analyzeInput in one session

NoSession == [at |-> "none", depth |-> 0, exit |-> -1, key |-> FALSE, argv |-> "none",
              links |-> 0, log |-> <<>>]

(***************************************************************************)
(* The language-model client: openaiClient = once(factory).                 *)
(***************************************************************************)
MaxCalls == 4       \* calls of openaiClient in one process

\* the value undefined, in the shape of an instance that is none
Undefined == [instance |-> 0, apiKey |-> "undefined"]
ApiKeys == {"", "sk-1", "sk-2"}

\* the cell of once before the first call.  Whether a first call that throws
\* uses the cell up is a property of the library, fixed for the process.
NoCell == [done |-> FALSE, value |-> Undefined, latch |-> FALSE]

\* new OpenAIWrapper(apiKey), the n-th of the process
OpenAIWrapper(apiKey, n) == [instance |-> n, apiKey |-> apiKey]

\* the function passed to once
factory(apiKey, n) ==
    IF apiKey = "" THEN [threw |-> TRUE, val |-> Undefined]
    ELSE [threw |-> FALSE, val |-> OpenAIWrapper(apiKey, n)]

\* once(fn): the first call runs fn and keeps what it returned, every later
\* call returns the kept value without running fn
once(cell, r) ==
    IF cell.done THEN [cell |-> cell, ret |-> [threw |-> FALSE, val |-> cell.value], ran |-> FALSE]
    ELSE IF r.threw
    THEN [cell |-> [cell EXCEPT !.done = cell.latch], ret |-> r, ran |-> TRUE]
    ELSE [cell |-> [cell EXCEPT !.done = TRUE, !.value = r.val], ret |-> r, ran |-> TRUE]

\* a client that runs the factory at every call
openaiClientUnmemoized(cell, apiKey, n) ==
    [cell |-> cell, ret |-> factory(apiKey, n), ran |-> TRUE]

openaiClient(cell, apiKey, n) == once(cell, factory(apiKey, n))

\* one call of openaiClient(apiKey)
CallClient ==
    /\ pc = "client"
    /\ Len(clientCalls) < MaxCalls
    /\ \E apiKey \in ApiKeys :
         LET c == openaiClient(memo, apiKey, constructed + 1)
         IN  /\ memo' = c.cell
             /\ constructed' = IF c.ran /\ ~c.ret.threw THEN constructed + 1 ELSE constructed
             /\ clientCalls' = Append(clientCalls, [apiKey |-> apiKey, ret |-> c.ret])
    /\ UNCHANGED <<version, input, pc, engine, mirror, invoked, requests, urls, ops,
                   search, results, raised, unitIn, unitOut, front, agent, received, session, anim>>

ClientInit ==
    /\ version = "wiki"
    /\ input = <<>>
    /\ pc = "client"
    /\ engine = 0
    /\ mirror = 0
    /\ invoked = <<>>
    /\ requests = <<>>
    /\ urls = <<>>
    /\ ops = <<>>
    /\ search = [st |-> "none", val |-> <<>>]
    /\ results = <<>>
    /\ raised = FALSE
    /\ unitIn = NoCall
    /\ unitOut = NoCall
    /\ flag = "none"
    /\ crawlArg = "none"
    /\ cpc = "client"
    /\ modelCalls = <<>>
    /\ output = NoOutput
    /\ agent = NoAgent
    /\ received = NoResponse
    /\ memo \in {[NoCell EXCEPT !.latch = l] : l \in BOOLEAN}
    /\ constructed = 0
    /\ clientCalls = <<>>
    /\ session = NoSession
    /\ anim = NoAnim

ClientSpec == ClientInit /\ [][CallClient]_vars

(***************************************************************************)
(* The interactive session of the CLI: main and analyzeInput.  What clai,   *)
(* animateText and the prompts of inquirer settle with is the environment's *)
(* choice.                                                                  *)
(***************************************************************************)
\* the command line: no argument, an input, or an option commander rejects
Argvs == {"none", "input", "unknown option"}

Logged(s, event) == [s EXCEPT !.log = Append(@, event)]

\* process.exit(code)
Exit(s, code) == [s EXCEPT !.at = "exited", !.exit = code]

\* an analyzeInput without its catch: the error reaches the catch of main
analyzeInputRethrows(s) == Exit(Logged(s, "Fatal error"), 1)

\* the catch of analyzeInput; every enclosing analyzeInput then returns from
\* its await, and the action of main calls process.exit(0)
analyzeInputCatch(s) == Exit(Logged(s, "Analysis failed"), 0)

\* analyzeInput is entered: the spinner starts and clai is called
analyzeInput(s) == [s EXCEPT !.at = "clai", !.depth = @ + 1]

\* the session touches nothing of the pipeline
SessionFrame ==
    UNCHANGED <<version, input, pc, engine, mirror, invoked, requests, urls, ops,
                search, results, raised, unitIn, unitOut, front, agent, received,
                memo, constructed, clientCalls, anim>>

\* main up to its first await: commander parses the command line and runs
\* the action
SessionMain ==
    /\ session.at = "main"
    /\ session' =
         IF session.argv = "unknown option" THEN Exit(Logged(session, "unknown option"), 1)
         ELSE IF ~session.key THEN Exit(Logged(session, "OPENAI_API_KEY is not set"), 1)
         ELSE IF session.argv = "none"
         THEN [Logged(session, "prompt input") EXCEPT !.at = "input"]
         ELSE analyzeInput(session)
    /\ SessionFrame

\* the prompt of the action for an input is answered, or fails: the action
\* rejects and the catch of main reports a fatal error
SessionInput ==
    /\ session.at = "input"
    /\ \/ session' = analyzeInput(session)
       \/ session' = Exit(Logged(session, "Fatal error"), 1)
    /\ SessionFrame

\* clai resolves with a summary and links, or rejects
SessionClai ==
    /\ session.at = "clai"
    /\ \/ \E n \in 0..1 :
            session' = [Logged(session, "Summary") EXCEPT !.at = "animate", !.links = n]
       \/ session' = analyzeInputCatch(session)
    /\ SessionFrame

\* animateText resolves and the list prompt is shown, or it rejects
SessionAnimate ==
    /\ session.at = "animate"
    /\ \/ session' = [Logged(session, "prompt list") EXCEPT !.at = "list"]
       \/ session' = analyzeInputCatch(session)
    /\ SessionFrame

\* the list prompt is answered with New search, a link or Exit, or fails
SessionList ==
    /\ session.at = "list"
    /\ \/ session' = [Logged(session, "prompt input") EXCEPT !.at = "new"]
       \/ session.links > 0 /\ session.depth < MaxDepth /\ session' = analyzeInput(session)
       \/ session' = Exit(session, 0)
       \/ session' = analyzeInputCatch(session)
    /\ SessionFrame

\* the prompt for a new input is answered, or fails
SessionNew ==
    /\ session.at = "new"
    /\ \/ session.depth < MaxDepth /\ session' = analyzeInput(session)
       \/ session' = analyzeInputCatch(session)
    /\ SessionFrame

SessionInit ==
    /\ version = "wiki"
    /\ input = <<>>
    /\ pc = "session"
    /\ engine = 0
    /\ mirror = 0
    /\ invoked = <<>>
    /\ requests = <<>>
    /\ urls = <<>>
    /\ ops = <<>>
    /\ search = [st |-> "none", val |-> <<>>]
    /\ results = <<>>
    /\ raised = FALSE
    /\ unitIn = NoCall
    /\ unitOut = NoCall
    /\ flag = "none"
    /\ crawlArg = "none"
    /\ cpc = "session"
    /\ modelCalls = <<>>
    /\ output = NoOutput
    /\ agent = NoAgent
    /\ received = NoResponse
    /\ memo = NoCell
    /\ constructed = 0
    /\ clientCalls = <<>>
    /\ anim = NoAnim
    /\ session \in {[NoSession EXCEPT !.at = "main", !.key = k, !.argv = a] :
                       k \in BOOLEAN, a \in Argvs}

SessionNext ==
    \/ SessionMain
    \/ SessionInput
    \/ SessionClai
    \/ SessionAnimate
    \/ SessionList
    \/ SessionNew

SessionSpec == SessionInit /\ [][SessionNext]_vars

(***************************************************************************)
(* animateText.  A string is a sequence of UTF-16 code units; what reaches  *)
(* the terminal is the UTF-8 encoding of each chunk given to stdout.write.  *)
(***************************************************************************)
MaxText == 3        \* code units of the animated text

\* the two code units of one character outside the basic plane, the
\* character itself, and U+FFFD
HiSurrogate == "D83D"
LoSurrogate == "DE00"
Astral == "1F600"
Replacement == "FFFD"
NL == "\n"

\* the characters that the encoding of a chunk puts on the terminal: a
\* surrogate pair gives its character, a surrogate on its own gives U+FFFD
RECURSIVE Utf8(_)
Utf8(chunk) ==
    IF chunk = <<>> THEN <<>>
    ELSE IF Len(chunk) >= 2 /\ chunk[1] = HiSurrogate /\ chunk[2] = LoSurrogate
    THEN <<Astral>> \o Utf8(SubSeq(chunk, 3, Len(chunk)))
    ELSE IF chunk[1] \in {HiSurrogate, LoSurrogate}
    THEN <<Replacement>> \o Utf8(Tail(chunk))
    ELSE <<chunk[1]>> \o Utf8(Tail(chunk))

\* well-formed texts: every surrogate is part of a pair
RECURSIVE WellFormed(_)
WellFormed(t) ==
    IF t = <<>> THEN TRUE
    ELSE IF t[1] = HiSurrogate
    THEN Len(t) >= 2 /\ t[2] = LoSurrogate /\ WellFormed(SubSeq(t, 3, Len(t)))
    ELSE t[1] # LoSurrogate /\ WellFormed(Tail(t))

AnimTexts ==
    {t \in SeqsUpTo({"a", "b", HiSurrogate, LoSurrogate}, MaxText) : WellFormed(t)}

\* process.stdout.write(chunk)
Write(a, chunk) ==
    [a EXCEPT !.written = @ \o Utf8(chunk), !.chunks = Append(@, chunk)]

\* the lines after the loop
Cleanup(a) ==
    Write([a EXCEPT !.raw = FALSE, !.flowing = FALSE, !.listener = FALSE, !.at = "done"],
          <<NL>>)

\* the loop from its test up to the next await or to the end of the function
Loop(a) ==
    IF a.currentIndex < Len(a.text)
    THEN IF a.shouldComplete
         THEN Cleanup(Write(a, SubSeq(a.text, a.currentIndex + 1, Len(a.text))))
         ELSE [Write(a, <<a.text[a.currentIndex + 1]>>)
                 EXCEPT !.currentIndex = @ + 1, !.at = "sleep"]
    ELSE Cleanup(a)

AnimFrame ==
    UNCHANGED <<version, input, pc, engine, mirror, invoked, requests, urls, ops,
                search, results, raised, unitIn, unitOut, front, agent, received,
                memo, constructed, clientCalls, session>>

\* animateText(text) is called and runs up to its first await
AnimCall ==
    /\ anim.at = "call"
    /\ anim' = Loop([anim EXCEPT !.listener = TRUE, !.raw = TRUE, !.flowing = TRUE])
    /\ AnimFrame

\* a key is pressed while animateText is suspended: keypressHandler runs
AnimKeypress ==
    /\ anim.at = "sleep"
    /\ anim.listener
    /\ \E name \in {"return", "a"} :
         anim' = [anim EXCEPT !.shouldComplete = @ \/ name = "return"]
    /\ AnimFrame

\* the timer of the await fires: the loop goes on
AnimTimer ==
    /\ anim.at = "sleep"
    /\ anim' = Loop(anim)
    /\ AnimFrame

AnimInit ==
    /\ version = "wiki"
    /\ input = <<>>
    /\ pc = "anim"
    /\ engine = 0
    /\ mirror = 0
    /\ invoked = <<>>
    /\ requests = <<>>
    /\ urls = <<>>
    /\ ops = <<>>
    /\ search = [st |-> "none", val |-> <<>>]
    /\ results = <<>>
    /\ raised = FALSE
    /\ unitIn = NoCall
    /\ unitOut = NoCall
    /\ flag = "none"
    /\ crawlArg = "none"
    /\ cpc = "anim"
    /\ modelCalls = <<>>
    /\ output = NoOutput
    /\ agent = NoAgent
    /\ received = NoResponse
    /\ memo = NoCell
    /\ constructed = 0
    /\ clientCalls = <<>>
    /\ session = NoSession
    /\ anim \in {[NoAnim EXCEPT !.at = "call", !.text = t] : t \in AnimTexts}

AnimNext ==
    \/ AnimCall
    \/ AnimKeypress
    \/ AnimTimer

AnimSpec == AnimInit /\ [][AnimNext]_vars

Init ==
    /\ version \in {"wiki", "emergency"}
    /\ input \in PipelineInputs
    /\ pc = "idle"
    /\ engine = 0
    /\ mirror = 0
    /\ invoked = <<>>
    /\ requests = <<>>
    /\ urls = <<>>
    /\ ops = <<>>
    /\ search = [st |-> "none", val |-> <<>>]
    /\ results = <<>>
    /\ raised = FALSE
    /\ unitIn = NoCall
    /\ unitOut = NoCall
    /\ \/ cpc = "main" /\ flag \in {"none", "-c", "--crawl"} /\ crawlArg = "none"
       \/ cpc = "clai" /\ flag = "nocli" /\ crawlArg \in {"omitted", "false", "true"}
    /\ modelCalls = <<>>
    /\ output = NoOutput
    /\ agent = NoAgent
    /\ received = NoResponse
    /\ memo = NoCell
    /\ constructed = 0
    /\ clientCalls = <<>>
    /\ session = NoSession
    /\ anim = NoAnim

Next ==
    \/ main
    \/ clai
    \/ Scraped
    \/ ModelRespond
    \/ Classify
    \/ Invoke
    \/ SearXRespond
    \/ Respond
    \/ IssueFetch
    \/ AwaitAll
    \/ \E i \in 1..Len(ops) : FetchOk(i)
    \/ \E i \in 1..Len(ops) : FetchFail(i)
    \/ Return

Spec == Init /\ [][Next]_vars

\* The same with the scheduling of the run: a continuation that can run is
\* run (the job queue), and every network call settles (the assumption of
\* the termination claim): while a network call is pending, one settles.
NetworkSettles ==
    WF_vars(SearXRespond \/ Respond \/ \E i \in 1..MaxResp : FetchOk(i) \/ FetchFail(i))

FairSpec ==
    /\ Spec
    /\ WF_vars(Classify \/ Invoke \/ IssueFetch \/ AwaitAll \/ Return
                  \/ main \/ clai \/ Scraped \/ ModelRespond)
    /\ NetworkSettles

(***************************************************************************)
(* The functions of the input classifier and the emergency constructor,    *)
(* applied on their own to every string of the alphabet up to MaxLen.      *)
(***************************************************************************)
Alphabet == {"a", "A", "1", ".", "-", SP, TAB, HS}
Giraffe == <<"g","i","r","a","f","f","e",SP,"h","e","i","g","h","t",SP,"f","a","c","t","s">>
Strings == SeqsUpTo(Alphabet, MaxLen) \cup {Giraffe}

CanApply == pc = "unit" /\ unitIn = NoCall

Applied(fn, arg, val) ==
    /\ unitIn' = [fn |-> fn, arg |-> arg]
    /\ unitOut' = [fn |-> fn, val |-> val]
    /\ UNCHANGED <<version, input, pc, engine, mirror, invoked, requests, urls, ops,
                   search, results, raised, front, aside, agent, received>>

ApplyIsValidUrlFirst ==
    CanApply /\ \E s \in Strings : Applied("isValidUrlFirst", s, isValidUrlFirst(s))

ApplyIsValidUrl ==
    CanApply /\ \E s \in Strings : Applied("isValidUrl", s, isValidUrl(s))

ApplyEmergency ==
    CanApply /\ \E s \in Strings : Applied("getEmergencyResults", s, getEmergencyResults(s))

\* the callers pass no options or { headers: { Accept: 'application/json' } };
\* the overrides enumerated are objects keyed like these, by a header name in
\* the spelling of the defaults or by a name that is not a default
OverrideNames == {"Accept", "User-Agent", "Pragma", "X-Requested-With"}
OverrideValues == {"application/json", "custom"}
Overrides == UNION {[names -> OverrideValues] : names \in SUBSET OverrideNames}

ApplyEnhancedFetch ==
    CanApply /\ \E k \in 1..Len(userAgents) : \E headers \in Overrides :
        Applied("enhancedFetch", [ua |-> userAgents[k], headers |-> headers],
                enhancedFetch(UA, [headers |-> headers], userAgents[k]))

\* the filter of clai on one record, for contents around the length limit
\* with any of the four phrases and with a capitalised one
ContentPhrases ==
    {"Wikipedia does not have an article", "page not found", "404", "error", "Error"}
Contents ==
    {[length |-> n, phrases |-> ph] :
        n \in {0, MinContentLength - 1, MinContentLength, MinContentLength + 1},
        ph \in SUBSET ContentPhrases}

ApplyIsUseful ==
    CanApply /\ \E content \in Contents :
        Applied("isUseful", content, isUseful([title |-> <<"t">>, content |-> content, url |-> UA]))

\* normalizeUrl, and normalizeUrl of its own result
SchemeTails == SeqsUpTo({"a", ".", "/"}, 2)
UrlStrings ==
    Strings
    \cup {HttpScheme \o t : t \in SchemeTails}
    \cup {HttpsScheme \o t : t \in SchemeTails}
    \cup {Http \o <<":", "/">>, Http \o <<"s", ":", "/">>, Http \o <<"s">>,
          <<"H","T","T","P",":","/","/","a">>, <<"a">> \o HttpScheme}

ApplyNormalizeUrl ==
    CanApply /\ \E s \in UrlStrings :
        Applied("normalizeUrl", s,
                [once |-> normalizeUrl(s), twice |-> normalizeUrl(normalizeUrl(s))])

\* getGoogleResults on a fetched page, and what the loop of getSearchResults
\* does with its outcome
ApplyGoogle ==
    CanApply /\ \E v \in {"wiki", "emergency"} :
        \E resp \in GoogleResponses(GoogleLinks, MaxLinks) \cup GoogleLongResponses :
            LET r == getGoogleResults(v, resp)
            IN  Applied("getGoogleResults", [v |-> v, resp |-> resp],
                        [result |-> r, exits |-> LoopExits(r)])

\* getDuckDuckGoResults on a response of the instant-answer API
ApplyDuckDuckGo ==
    CanApply /\ \E v \in {"wiki", "emergency"} :
        \E resp \in DuckDuckGoResponses(PipePool, MaxLinks) :
            Applied("getDuckDuckGoResults", [v |-> v, resp |-> resp],
                    getDuckDuckGoResults(v, resp))

\* the callback of urls.map on one URL and one response
ApplyCallback ==
    CanApply /\ \E url \in PipePool : \E resp \in PageResponses :
        Applied("callback", [url |-> url, resp |-> resp], callback(url, resp))

UnitInit ==
    /\ version = "wiki"
    /\ input = <<>>
    /\ pc = "unit"
    /\ engine = 0
    /\ mirror = 0
    /\ invoked = <<>>
    /\ requests = <<>>
    /\ urls = <<>>
    /\ ops = <<>>
    /\ search = [st |-> "none", val |-> <<>>]
    /\ results = <<>>
    /\ raised = FALSE
    /\ unitIn = NoCall
    /\ unitOut = NoCall
    /\ flag = "none"
    /\ crawlArg = "none"
    /\ cpc = "unit"
    /\ modelCalls = <<>>
    /\ output = NoOutput
    /\ agent = NoAgent
    /\ received = NoResponse
    /\ memo = NoCell
    /\ constructed = 0
    /\ clientCalls = <<>>
    /\ session = NoSession
    /\ anim = NoAnim

UnitNext ==
    \/ ApplyIsValidUrlFirst
    \/ ApplyIsValidUrl
    \/ ApplyEmergency
    \/ ApplyNormalizeUrl
    \/ ApplyGoogle
    \/ ApplyEnhancedFetch
    \/ ApplyIsUseful
    \/ ApplyDuckDuckGo
    \/ ApplyCallback

UnitSpec == UnitInit /\ [][UnitNext]_vars

(***************************************************************************)
(* Properties.                                                             *)
(***************************************************************************)
PriorityOrder == <<"SearX", "Google", "DuckDuckGo", "Wikipedia">>
Succeeded == {i \in 1..Len(ops) : ops[i].st = "ok"}
Dropped == {i \in 1..Len(ops) : ops[i].st = "failed"}
InFlight == {i \in 1..Len(invoked) : invoked[i].st = "inflight"}
AllAdaptersFailed ==
    /\ Len(invoked) = Len(searchEngines(version))
    /\ \A i \in 1..Len(invoked) : invoked[i].st = "failed"
PageRequests == SelectSeq(requests, LAMBDA r : r.to[1] = "page")
HasWhitespace(s) == \E i \in 1..Len(s) : IsSpaceChar(s[i])

\* C1: when adapter k is the first adapter of the priority list that succeeds,
\* getSearchResults returns exactly the output of adapter k (nothing of
\* another adapter is merged in), every adapter before k has failed and no
\* adapter after k is invoked.
C1_FirstSuccessWins ==
    \A k \in 1..Len(invoked) :
        invoked[k].st = "ok" =>
            /\ k = Len(invoked)
            /\ \A j \in 1..(k - 1) : invoked[j].st = "failed"
            /\ search = [st |-> "returned", val |-> invoked[k].out]
            /\ urls = invoked[k].out

C1_Witness ==
    /\ Len(invoked) = 3
    /\ invoked[3].st = "ok"
    /\ Len(invoked[3].out) = 3
    /\ pc = "done"

\* C2: the adapters are invoked in the order SearX, Google, DuckDuckGo,
\* Wikipedia, each with the raw query; an adapter is invoked only after every
\* adapter before it has settled as a failure, and at most one invocation is
\* in flight.
C2_SequentialTrials ==
    /\ \A i \in 1..Len(invoked) :
        /\ invoked[i].name = PriorityOrder[i]
        /\ invoked[i].query = input
    /\ \A i \in 1..(Len(invoked) - 1) : invoked[i].st = "failed"
    /\ Cardinality(InFlight) <= 1

C2_Witness ==
    /\ Len(invoked) = 4
    /\ invoked[4].st = "inflight"
    /\ ~IncludesChar(input, HS)

\* C3: scrape returns exactly one record per candidate URL whose operation
\* succeeded and none for one that failed: N - M records for N candidates of
\* which M failed, matching the successful entries of the list one to one.
C3_OneRecordPerSuccess ==
    pc = "done" =>
        /\ Len(ops) = Len(urls)
        /\ \A i \in 1..Len(ops) : ops[i].url = urls[i]
        /\ Len(results) = Len(urls) - Cardinality(Dropped)
        /\ \A u \in Range(urls) :
            Cardinality({j \in 1..Len(results) : results[j].url = u})
                = Cardinality({i \in Succeeded : urls[i] = u})
        /\ \A j \in 1..Len(results) : results[j].url \in Range(urls)

C3_Witness ==
    /\ pc = "done"
    /\ Len(urls) = 3
    /\ urls[1] # urls[3]
    /\ Succeeded = {1, 3}
    /\ Dropped = {2}
    /\ Len(results) = 2
    /\ results[1].url = urls[1]
    /\ results[2].url = urls[3]

\* C4: scrape returns only when every per-URL operation has settled; a
\* failed operation neither makes scrape reject nor removes the record of an
\* operation that succeeded.
C4_ReturnsAfterAllSettled ==
    pc = "done" =>
        /\ \A i \in 1..Len(ops) : ops[i].st # "pending"
        /\ Len(ops) > 0 => ~raised
        /\ \A i \in Succeeded : \E j \in 1..Len(results) : results[j].url = ops[i].url

C4_Witness ==
    /\ pc = "done"
    /\ Len(ops) = 3
    /\ Dropped = {1}
    /\ Succeeded = {2, 3}
    /\ Len(results) = 2

\* C5: one fetch is issued per candidate URL, and all of them are issued
\* before scrape waits and before any of them completes.
C5_AllFetchesStartedFirst ==
    /\ Len(PageRequests) = Len(ops)
    /\ \A i \in 1..Len(ops) : PageRequests[i].q = urls[i]
    /\ (pc = "await" \/ Succeeded \cup Dropped # {}) => Len(ops) = Len(urls)
    /\ (pc = "done" /\ search.st # "raised") => Len(PageRequests) = Len(urls)

C5_Witness ==
    /\ pc = "await"
    /\ Len(ops) = 3
    /\ Succeeded \cup Dropped = {}

\* C6: scrape never rejects, and on total failure (getSearchResults failed,
\* or every fetch failed) it resolves with the empty list.
C6_ScrapeNeverFails ==
    /\ ~raised
    /\ (pc = "done" /\ (search.st = "raised" \/ Succeeded = {})) => results = <<>>

\* the part of C6 that the version without emergency constructor satisfies
C6_WikiNeverFails == version = "wiki" => C6_ScrapeNeverFails

\* C7: without emergency constructor getSearchResults raises exactly when
\* all four adapters have failed; with one it never raises.
C7_RaisesOnlyWithoutEmergency ==
    search.st = "raised" <=> (version = "wiki" /\ AllAdaptersFailed)

\* the part of C7 about the version without emergency constructor
C7_WikiRaisesIffAllFail == version = "wiki" => C7_RaisesOnlyWithoutEmergency

\* C8: getEmergencyResults never throws; it returns a non-empty list whose
\* entries all begin with https://, and for "giraffe height facts" the list
\* holds https://giraffe.com.
C8_EmergencyNeverFails ==
    unitIn.fn = "getEmergencyResults" =>
        /\ ~unitOut.val.threw
        /\ Len(unitOut.val.val) > 0
        /\ \A i \in 1..Len(unitOut.val.val) : StartsWith(unitOut.val.val[i], HttpsScheme)
        /\ unitIn.arg = Giraffe =>
            \E i \in 1..Len(unitOut.val.val) :
                unitOut.val.val[i] = HttpsScheme \o <<"g","i","r","a","f","f","e">> \o DotCom

\* the part of C8 that holds: for a query without lone surrogate
C8_EmergencyWellFormedQuery ==
    (unitIn.fn = "getEmergencyResults" /\ ~IncludesChar(unitIn.arg, HS)) =>
        C8_EmergencyNeverFails

\* C9: the candidate list handed to the fetch stage has at most 5 entries.
C9_CandidateListCapped == Len(urls) <= 5

\* the part of C9 that holds: every list not returned by getWikipediaResults
C9_CappedUnlessWikipedia ==
    (Len(invoked) < 4 \/ invoked[4].st # "ok") => Len(urls) <= 3

\* C10: isValidUrl returns false for every input that contains white space.
C10_WhitespaceIsNeverUrl ==
    (unitIn.fn \in {"isValidUrlFirst", "isValidUrl"} /\ HasWhitespace(unitIn.arg)) =>
        ~unitOut.val

\* the part of C10 that holds: the versions with the TLD pattern
C10_CurrentWhitespaceIsNeverUrl ==
    (unitIn.fn = "isValidUrl" /\ HasWhitespace(unitIn.arg)) => ~unitOut.val

\* C11: normalizeUrl prefixes "https://" exactly once: an input without an
\* http:// or https:// prefix comes back as "https://" followed by the input,
\* an input with one comes back unchanged, and normalizing the result again
\* changes nothing.
C11_NormalizeIdempotent ==
    unitIn.fn = "normalizeUrl" =>
        LET x == unitIn.arg
            y == unitOut.val.once
            schemed == \/ Len(x) >= 7 /\ SubSeq(x, 1, 7) = HttpScheme
                       \/ Len(x) >= 8 /\ SubSeq(x, 1, 8) = HttpsScheme
        IN  /\ schemed => y = x
            /\ ~schemed => (Len(y) = Len(x) + 8 /\ SubSeq(y, 1, 8) = HttpsScheme
                            /\ SubSeq(y, 9, Len(y)) = x)
            /\ unitOut.val.twice = y

C11_Witness ==
    /\ unitIn.fn = "normalizeUrl"
    /\ unitIn.arg = <<"a", ".", "a">>
    /\ unitOut.val.once = HttpsScheme \o <<"a", ".", "a">>
    /\ unitOut.val.twice = unitOut.val.once

\* C12: for an input classified as a URL no adapter is invoked and no search
\* endpoint is requested; the candidate list is the one element
\* normalizeUrl(input); scrape returns the one complete record of that page
\* with the candidate as its url when the fetch succeeded, and the empty list
\* when it failed.
UrlInputs == {InUrl, InHttp}

C12_UrlInputFetchedDirectly ==
    (input \in UrlInputs /\ pc \notin {"idle", "start"}) =>
        /\ invoked = <<>>
        /\ search.st = "none"
        /\ \A k \in 1..Len(requests) : requests[k].to[1] = "page"
        /\ urls = <<IF input = InUrl THEN HttpsScheme \o InUrl ELSE InHttp>>
        /\ ~raised
        /\ pc = "done" =>
              \/ ops[1].st = "failed" /\ results = <<>>
              \/ /\ ops[1].st = "ok"
                 /\ Len(results) = 1
                 /\ DOMAIN results[1] = {"title", "content", "url"}
                 /\ results[1].url = urls[1]
                 /\ results[1].title = ops[1].page.title
                 /\ results[1].content = ops[1].page.body

C12_Witness ==
    /\ input = InUrl
    /\ pc = "done"
    /\ Len(results) = 1
    /\ results[1].url = HttpsScheme \o InUrl

\* C13: when the fetched Google page contains a block-page phrase, the
\* getGoogleResults with the block-page check (scraper.ts:329-394) fails and
\* returns no list, whatever links the page has, and the loop of
\* getSearchResults does not end at it.
C13_BlockPageRejects ==
    (/\ unitIn.fn = "getGoogleResults"
     /\ unitIn.arg.v = "wiki"
     /\ unitIn.arg.resp.kind # "throw"
     /\ unitIn.arg.resp.signatures # {}) =>
        /\ unitOut.val.result.threw
        /\ unitOut.val.result.val = <<>>
        /\ ~unitOut.val.exits

C13_Witness ==
    /\ unitIn.fn = "getGoogleResults"
    /\ unitIn.arg.v = "wiki"
    /\ unitIn.arg.resp.kind = "ok"
    /\ unitIn.arg.resp.signatures = {"unusual traffic"}
    /\ unitIn.arg.resp.links = <<UA, UB>>
    /\ unitOut.val.result.threw
    /\ ~unitOut.val.exits

\* C14: the one request that enhancedFetch sends carries, for every header
\* named in the caller's overrides, the caller's value, and every default
\* header that the overrides do not name with its default value.
C14_OverridesTakePrecedence ==
    unitIn.fn = "enhancedFetch" =>
        LET over == unitIn.arg.headers
            defaults == DefaultHeaders(unitIn.arg.ua)
        IN  /\ Len(unitOut.val) = 1
            /\ DOMAIN unitOut.val[1].headers = DOMAIN defaults \cup DOMAIN over
            /\ \A h \in DOMAIN over : unitOut.val[1].headers[h] = over[h]
            /\ \A h \in DOMAIN defaults \ DOMAIN over :
                  unitOut.val[1].headers[h] = defaults[h]

C14_Witness ==
    /\ unitIn.fn = "enhancedFetch"
    /\ unitIn.arg.headers = ("Accept" :> "application/json")
    /\ unitOut.val[1].headers["Accept"] = "application/json"
    /\ unitOut.val[1].headers["Pragma"] = "no-cache"
    /\ unitOut.val[1].headers["User-Agent"] = userAgents[3]

\* C15 as claimed: within one scrape call no endpoint, search endpoint or
\* page URL, is requested twice.
Endpoint(r) == IF r.to[1] = "page" THEN <<"page", r.q>> ELSE r.to

C15_NoEndpointTwice ==
    \A i, j \in 1..Len(requests) :
        i # j => Endpoint(requests[i]) # Endpoint(requests[j])

\* C15: nothing is retried: each search endpoint (a SearX mirror, Google,
\* DuckDuckGo, Wikipedia) is requested at most once, by the one invocation of
\* its adapter, and the page requests are the entries of the candidate list,
\* one request per entry in list order, so that a URL the winning provider
\* lists twice is requested twice.
C15_OneRequestPerEntry ==
    /\ \A i, j \in 1..Len(requests) :
          (i # j /\ requests[i].to[1] # "page") => requests[i].to # requests[j].to
    /\ \A i \in 1..Len(requests) :
          requests[i].to[1] # "page" =>
              Cardinality({k \in 1..Len(invoked) : invoked[k].name = requests[i].to[1]}) = 1
    /\ Len(PageRequests) = Len(ops)
    /\ Len(ops) <= Len(urls)
    /\ \A k \in 1..Len(PageRequests) : PageRequests[k].q = urls[k]

C15_Witness ==
    /\ pc = "done"
    /\ Len(invoked) = 4
    /\ Len(urls) = 2
    /\ urls[1] = urls[2]
    /\ Len(PageRequests) = 2
    /\ ops[1].st = "failed"

\* C16: when clai was called with crawling enabled and has settled, it made
\* exactly one call of the summarizer: summarize on the combined content of
\* the useful records, with their urls as the reported sources, when at least
\* one record is longer than 200 characters and free of the denylisted
\* phrases; the direct query, with the knowledge base as the only source,
\* otherwise.
Denylist == {"Wikipedia does not have an article", "page not found", "404", "error"}

PassingRecords ==
    SelectSeq(results, LAMBDA d : /\ d.content.length > MinContentLength
                                  /\ d.content.phrases \cap Denylist = {})

C16_OneModelCallWhenCrawling ==
    (crawlArg = "true" /\ cpc \in {"returned", "rejected"}) =>
        /\ Len(modelCalls) = 1
        /\ IF PassingRecords # <<>>
           THEN /\ modelCalls[1].fn = "summarize"
                /\ modelCalls[1].arg =
                     [i \in 1..Len(PassingRecords) |->
                        [from |-> PassingRecords[i].url, content |-> PassingRecords[i].content]]
                /\ cpc = "returned" =>
                     output.sources = [i \in 1..Len(PassingRecords) |-> PassingRecords[i].url]
           ELSE /\ modelCalls[1].fn = "summarizeQuery"
                /\ modelCalls[1].arg = input
                /\ cpc = "returned" => output.sources = <<KnowledgeBase>>

\* the same with the scrape that never rejects (scraper.ts:175-205)
C16_WikiOneModelCall == version = "wiki" => C16_OneModelCallWhenCrawling

\* the filter keeps a record exactly when its content is longer than 200
\* characters and includes none of the four phrases as written
C16_FilterByLengthAndDenylist ==
    unitIn.fn = "isUseful" =>
        (unitOut.val <=> (/\ unitIn.arg.length >= MinContentLength + 1
                          /\ unitIn.arg.phrases \cap Denylist = {}))

\* C17: when clai is called without useCrawling or with false, scrape is
\* never started, no search provider and no page is requested, the only call
\* of the summarizer is the direct query, and the sources returned are
\* exactly the knowledge base.
C17_DirectByDefault ==
    crawlArg \in {"omitted", "false"} =>
        /\ pc = "idle"
        /\ requests = <<>>
        /\ invoked = <<>>
        /\ \A k \in 1..Len(modelCalls) :
              k = 1 /\ modelCalls[k] = [fn |-> "summarizeQuery", arg |-> input]
        /\ cpc = "returned" =>
              (Len(modelCalls) = 1 /\ output.sources = <<KnowledgeBase>>)

C17_Witness ==
    /\ crawlArg = "omitted"
    /\ cpc = "returned"
    /\ pc = "idle"
    /\ output = [st |-> "returned", sources |-> <<KnowledgeBase>>]

\* C18: a run of the CLI with -c or --crawl calls clai with crawling
\* enabled, and a run without the option does not.
C18_CrawlFlagEnablesCrawling ==
    /\ (flag \in {"-c", "--crawl"} /\ cpc # "main") => crawlArg = "true"
    /\ (flag = "none" /\ cpc # "main") => crawlArg # "true"

\* what holds instead: no run of the CLI, with or without the option, starts
\* scrape or requests anything
C18_CliNeverCrawls ==
    flag # "nocli" => (crawlArg # "true" /\ pc = "idle" /\ requests = <<>>)

\* C19: the winner and the candidate list are determined by the outcomes of
\* the adapters alone, whatever User-Agent the requests carried: the adapters
\* are invoked in priority order, the winner is the first of them whose
\* outcome is a success, the list returned is its output, and no later
\* adapter is invoked; two runs with the same outcomes therefore agree.
FirstSuccess == CHOOSE k \in 1..Len(invoked) :
                    /\ invoked[k].st = "ok"
                    /\ \A j \in 1..(k - 1) : invoked[j].st # "ok"

C19_WinnerDeterminedByOutcomes ==
    /\ \A k \in 1..Len(invoked) : invoked[k].name = PriorityOrder[k]
    /\ (\E k \in 1..Len(invoked) : invoked[k].st = "ok") =>
           /\ Len(invoked) = FirstSuccess
           /\ search = [st |-> "returned", val |-> invoked[FirstSuccess].out]
           /\ urls = search.val
    /\ (search.st = "returned" /\ version = "wiki") =>
           \E k \in 1..Len(invoked) : invoked[k].st = "ok"

C19_Witness ==
    /\ search.st = "returned"
    /\ agent = userAgents[4]
    /\ Len(invoked) = 2
    /\ invoked[1].st = "failed"
    /\ invoked[2].st = "ok"
    /\ urls = invoked[2].out

\* C20 as claimed: the url of every returned record is the href of the
\* page's link[rel=canonical], and empty when the page has none.
OkOps == SelectSeq(ops, LAMBDA op : op.st = "ok")

C20_UrlIsCanonical ==
    pc = "done" =>
        \A j \in 1..Len(results) : results[j].url = OkOps[j].page.canonical

\* C20: the url of every returned record is the candidate URL its page was
\* fetched from, whatever canonical URL the page declares; title and content
\* are the extractor's.
C20_UrlIsCandidate ==
    pc = "done" =>
        /\ Len(results) = Len(OkOps)
        /\ \A j \in 1..Len(results) :
              /\ results[j].url = OkOps[j].url
              /\ results[j].title = OkOps[j].page.title
              /\ results[j].content = OkOps[j].page.body

C20_Witness ==
    /\ pc = "done"
    /\ Len(results) = 2
    /\ results[1].url = UA
    /\ OkOps[1].page.canonical = UB
    /\ results[2].url = UA
    /\ OkOps[2].page.canonical = <<>>

\* C21: when every network call settles, a call of scrape returns (or
\* rejects); and while scrape awaits its fetches, each pending fetch can
\* settle whatever the state of the others, so that a request that never
\* settles holds back no sibling.
C21_ScrapeReturns ==
    /\ (pc = "start") ~> (pc = "done")
    /\ [](\A i \in 1..Len(ops) :
            (pc = "await" /\ ops[i].st = "pending") =>
                (ENABLED FetchOk(i) /\ ENABLED FetchFail(i)))

C21_Witness ==
    /\ pc = "done"
    /\ Len(ops) = 3
    /\ ops[1].st = "failed"
    /\ ops[2].st = "ok"
    /\ ops[3].st = "ok"

SearXRequests == SelectSeq(requests, LAMBDA r : r.to[1] = "SearX")

\* the response carries a usable URL among its first five results
Usable(resp) ==
    /\ resp.kind = "ok"
    /\ resp.array
    /\ \E k \in 1..Len(resp.results) :
          /\ k <= 5
          /\ IsHttpUrl(resp.results[k])
          /\ ~Includes(resp.results[k], WikipediaOrg)

\* C22: getSearXResults contacts its mirrors in list order; the response of
\* a mirror that is not OK, throws or holds no usable URL moves the loop to
\* the next mirror with the same query; the first mirror whose response
\* holds a usable URL settles the adapter with a non-empty list and no later
\* mirror is contacted; the adapter fails only after the last mirror
C22_MirrorsInOrder ==
    /\ [][(pc = "wait" /\ EngineName = "SearX") =>
            IF Usable(received')
            THEN /\ invoked'[1].st = "ok"
                 /\ invoked'[1].out # <<>>
                 /\ requests' = requests
            ELSE IF mirror < SearxInstances(version)
            THEN /\ invoked' = invoked
                 /\ requests' = Append(requests,
                                   Request(<<"SearX", mirror + 1>>, requests[Len(requests)].q))
            ELSE /\ invoked'[1].st = "failed"
                 /\ requests' = requests]_vars
    /\ [](\A k \in 1..Len(SearXRequests) : SearXRequests[k].to = <<"SearX", k>>)
    /\ []((Len(invoked) >= 1 /\ invoked[1].name = "SearX" /\ invoked[1].st = "failed") =>
            \/ Len(SearXRequests) = SearxInstances(version)
            \/ Len(SearXRequests) = 0)

\* the first mirror yielded nothing, the second mirror won
C22_Witness ==
    /\ version = "wiki"
    /\ Len(SearXRequests) = 2
    /\ Len(invoked) = 1
    /\ invoked[1].st = "ok"
    /\ Usable(received)

HasTopicUrl(resp) == \E k \in 1..Len(resp.topics) : resp.topics[k] # <<>>
HasLeadingTopicUrl(resp) ==
    \E k \in 1..Len(resp.topics) : k <= 2 /\ resp.topics[k] # <<>>

C23_SuccessNeedsDirectUrl ==
    (/\ unitIn.fn = "getDuckDuckGoResults"
     /\ unitIn.arg.v = "wiki"
     /\ unitIn.arg.resp.AbstractURL = <<>>
     /\ ~HasTopicUrl(unitIn.arg.resp)) =>
        unitOut.val.threw

\* C23: getDuckDuckGoResults (scraper.ts:396-444) succeeds on an OK response
\* without the soft-block notice exactly when the response carries an
\* AbstractURL, a FirstURL in one of its first two related topics, or a
\* DefinitionURL; the DefinitionURL is returned alone and only when the other
\* two are missing; a response with none of the three makes the adapter fail.
C23_SuccessNeedsSomeUrl ==
    (/\ unitIn.fn = "getDuckDuckGoResults"
     /\ unitIn.arg.v = "wiki") =>
        LET resp == unitIn.arg.resp
            direct == resp.AbstractURL # <<>> \/ HasLeadingTopicUrl(resp)
            clean == resp.kind = "ok" /\ resp.Abstract = {} /\ resp.AbstractText = {}
        IN  /\ ~unitOut.val.threw <=> (clean /\ (direct \/ resp.DefinitionURL # <<>>))
            /\ (clean /\ ~direct /\ resp.DefinitionURL # <<>>) =>
                  unitOut.val.val = <<resp.DefinitionURL>>
            /\ (clean /\ direct) =>
                  \A k \in 1..Len(unitOut.val.val) :
                      unitOut.val.val[k] \in {resp.AbstractURL} \cup
                          {resp.topics[j] : j \in 1..Len(resp.topics)}

\* a response with a DefinitionURL and no other URL succeeds
C23_Witness ==
    /\ unitIn.fn = "getDuckDuckGoResults"
    /\ unitIn.arg.v = "wiki"
    /\ unitIn.arg.resp.kind = "ok"
    /\ unitIn.arg.resp.AbstractURL = <<>>
    /\ ~HasTopicUrl(unitIn.arg.resp)
    /\ unitIn.arg.resp.DefinitionURL = UA
    /\ unitOut.val = Returned(<<UA>>)

\* C24: when data.Abstract or data.AbstractText of the DuckDuckGo response
\* contains the notice of the redirect to the non-JavaScript site,
\* getDuckDuckGoResults (scraper.ts:396-418) fails and returns none of the
\* URLs of the response.
C24_SoftBlockRejects ==
    (/\ unitIn.fn = "getDuckDuckGoResults"
     /\ unitIn.arg.v = "wiki"
     /\ \/ unitIn.arg.resp.Abstract # {}
        \/ unitIn.arg.resp.AbstractText # {}) =>
        /\ unitOut.val.threw
        /\ unitOut.val.val = <<>>

\* an OK response with the notice in AbstractText only, an AbstractURL and a
\* related topic
C24_Witness ==
    /\ unitIn.fn = "getDuckDuckGoResults"
    /\ unitIn.arg.v = "wiki"
    /\ unitIn.arg.resp.kind = "ok"
    /\ unitIn.arg.resp.Abstract = {}
    /\ unitIn.arg.resp.AbstractText # {}
    /\ unitIn.arg.resp.AbstractURL = UA
    /\ unitIn.arg.resp.topics = <<UB>>
    /\ unitOut.val.threw

\* the decoded target of the wrapper link at position i, <<>> when the link is
\* no wrapper or its target is not taken
WrappedAt(links, i) ==
    LET d == decodeURIComponent(UrlMatch(links[i]))
    IN  IF /\ StartsWith(links[i], UrlQ)
           /\ UrlMatch(links[i]) # <<>>
           /\ ~d.threw
           /\ IsHttpUrl(d.val)
           /\ ~Includes(d.val, GoogleCom)
           /\ ~Includes(d.val, YoutubeCom)
        THEN d.val ELSE <<>>

\* the bare outbound link at position i, <<>> when there is none
DirectAt(links, i) ==
    IF /\ StartsWith(links[i], Http)
       /\ ~Includes(links[i], GoogleCom)
       /\ ~Includes(links[i], YoutubeCom)
    THEN links[i] ELSE <<>>

\* the places of a URL in the document: the wrapper links first
Places(links, u) ==
    {i \in 1..Len(links) : WrappedAt(links, i) = u}
    \cup {Len(links) + i : i \in {j \in 1..Len(links) : DirectAt(links, j) = u}}

Eligible(links) ==
    ({WrappedAt(links, i) : i \in 1..Len(links)}
     \cup {DirectAt(links, i) : i \in 1..Len(links)}) \ {<<>>}

FirstPlace(links, u) == CHOOSE i \in Places(links, u) : \A j \in Places(links, u) : i <= j

\* C25: on a page without a block-page phrase, getGoogleResults
\* (scraper.ts:345-394) returns at most 3 URLs without a duplicate, each the
\* decoded target of a wrapper link or a bare outbound link and none
\* containing google.com or youtube.com, in the order of their first place in
\* the document with the wrapper links before the bare links, and leaves out
\* only URLs that come after the third; it fails exactly when no such URL
\* exists.
C25_GoogleListShape ==
    (/\ unitIn.fn = "getGoogleResults"
     /\ unitIn.arg.v = "wiki"
     /\ unitIn.arg.resp.kind # "throw"
     /\ unitIn.arg.resp.signatures = {}) =>
        LET links == unitIn.arg.resp.links
            list == unitOut.val.result.val
        IN  /\ Len(list) <= 3
            /\ \A k \in 1..Len(list) :
                  /\ list[k] \in Eligible(links)
                  /\ ~Includes(list[k], GoogleCom)
                  /\ ~Includes(list[k], YoutubeCom)
            /\ \A j, k \in 1..Len(list) :
                  j < k => FirstPlace(links, list[j]) < FirstPlace(links, list[k])
            /\ \A u \in Eligible(links) \ Range(list) :
                  /\ Len(list) = 3
                  /\ FirstPlace(links, u) > FirstPlace(links, list[3])
            /\ unitOut.val.result.threw <=> Eligible(links) = {}

\* a page with two wrapper links to one target, a youtube link and two bare
\* links: the wrapper target comes first and once
C25_Witness ==
    /\ unitIn.fn = "getGoogleResults"
    /\ unitIn.arg.v = "wiki"
    /\ unitIn.arg.resp.links =
          <<UA, UrlQ \o UD \o <<"&","s","a">>, UC, UrlQ \o UD \o <<"&","s","a">>>>
    /\ unitOut.val.result = Returned(<<UD, UA, UC>>)

\* a page with four distinct results: the fourth is cut
C25_CapWitness ==
    /\ unitIn.fn = "getGoogleResults"
    /\ Len(unitOut.val.result.val) = 3
    /\ Cardinality(Eligible(unitIn.arg.resp.links)) = 4

\* C26: over any sequence of calls of openaiClient at most one OpenAIWrapper
\* is constructed, and once a call has returned an instance every later call
\* returns that instance, whatever API key it is passed.
C26_OneClient ==
    /\ constructed <= 1
    /\ \A i, j \in 1..Len(clientCalls) :
          (i < j /\ ~clientCalls[i].ret.threw /\ clientCalls[i].ret.val # Undefined) =>
              /\ ~clientCalls[j].ret.threw
              /\ clientCalls[j].ret.val = clientCalls[i].ret.val

\* a first call without a key, then three calls with two different keys and
\* with none
C26_Witness ==
    /\ Len(clientCalls) = 4
    /\ clientCalls[1].apiKey = ""
    /\ clientCalls[2].apiKey = "sk-1"
    /\ clientCalls[3].apiKey = "sk-2"
    /\ clientCalls[4].apiKey = ""
    /\ clientCalls[2].ret.val = OpenAIWrapper("sk-1", 1)
    /\ clientCalls[4].ret.val = OpenAIWrapper("sk-1", 1)
    /\ constructed = 1

\* the j-th candidate, in list order, whose operation succeeded
NthSucceeded(j) ==
    CHOOSE i \in Succeeded : Cardinality({k \in Succeeded : k <= i}) = j

\* C27: the records that scrape returns are those of the candidates whose
\* operation succeeded, in the order of the candidate list, whatever order
\* the fetches completed in.
C27_RecordsInListOrder ==
    pc = "done" =>
        /\ Len(results) = Cardinality(Succeeded)
        /\ \A j \in 1..Len(results) :
              /\ results[j].url = urls[NthSucceeded(j)]
              /\ results[j].title = ops[NthSucceeded(j)].page.title
              /\ results[j].content = ops[NthSucceeded(j)].page.body

\* two fetches completed last to first, with different pages
C27_Witness ==
    /\ pc = "done"
    /\ Len(ops) = 2
    /\ ops[1].at = 2
    /\ ops[2].at = 1
    /\ Succeeded = {1, 2}
    /\ ops[1].page # ops[2].page
    /\ urls[1] # urls[2]
    /\ results[1].url = urls[1]
    /\ results[2].url = urls[2]

\* C28: the callback of urls.map gives null only when the transport call or
\* the reading of the body throws; a response with a status that is not OK
\* and a readable body gives a record with the candidate URL and the title
\* and text of that body.
C28_StatusIsNotInspected ==
    unitIn.fn = "callback" =>
        LET resp == unitIn.arg.resp
        IN  /\ unitOut.val.null <=> (resp.kind = "throw" \/ ~resp.text)
            /\ (resp.kind = "settled" /\ resp.text) =>
                  /\ unitOut.val.data.url = unitIn.arg.url
                  /\ unitOut.val.data.title = resp.page.title
                  /\ unitOut.val.data.content = resp.page.body

\* a 404 response with a readable body gave a record
C28_Witness ==
    /\ unitIn.fn = "callback"
    /\ unitIn.arg.resp.kind = "settled"
    /\ unitIn.arg.resp.status = 404
    /\ unitIn.arg.resp.text
    /\ ~unitOut.val.null
    /\ unitOut.val.data.url = unitIn.arg.url
    /\ "404" \in unitOut.val.data.content.phrases

Reported(event) == \E k \in 1..Len(session.log) : session.log[k] = event
IsPrompt(event) == event \in {"prompt input", "prompt list"}

C29_ExitOneOnlyBeforeSession ==
    session.exit = 1 => (~session.key \/ session.argv = "unknown option")

\* C29: no error leaves analyzeInput: a failure of clai, of animateText or of
\* a prompt inside it is reported once as 'Analysis failed', no prompt follows
\* it and the process exits with code 0, as it does when the user picks Exit;
\* the process exits with code 1 only before any analysis has started: when
\* the command line is rejected, when OPENAI_API_KEY is missing, or when the
\* prompt of main for an input fails.
C29_SessionEnds ==
    /\ session.exit \in {-1, 0, 1}
    /\ session.exit # -1 <=> session.at = "exited"
    /\ \A k \in 1..Len(session.log) :
          session.log[k] = "Analysis failed" =>
              /\ k = Len(session.log)
              /\ session.exit = 0
    /\ session.exit = 1 =>
          /\ session.depth = 0
          /\ \/ session.argv = "unknown option"
             \/ ~session.key
             \/ session.argv = "none" /\ session.log = <<"prompt input", "Fatal error">>
    /\ session.depth > 0 => session.exit # 1

\* a second analysis, started from the list prompt, failed
C29_Witness ==
    /\ session.at = "exited"
    /\ session.exit = 0
    /\ session.depth = 2
    /\ session.log = <<"Summary", "prompt list", "Analysis failed">>

\* the prompt of main failed
C29_FatalWitness ==
    /\ session.key
    /\ session.argv = "none"
    /\ session.exit = 1

\* C30: whenever the return key is pressed, when animateText has completed
\* the terminal has received every character of the text once and in order,
\* followed by a newline, the keypress listener is removed, raw mode is off
\* and stdin is paused.
C30_TextWrittenOnce ==
    anim.at = "done" =>
        /\ anim.written = Utf8(anim.text \o <<NL>>)
        /\ ~anim.listener
        /\ ~anim.raw
        /\ ~anim.flowing

\* the part of C30 that holds: the chunks given to stdout.write are, put
\* together, the code units of the text and a newline, and the cleanup is done
C30_CodeUnitsWrittenOnce ==
    anim.at = "done" =>
        /\ Concat(anim.chunks) = anim.text \o <<NL>>
        /\ ~anim.listener
        /\ ~anim.raw
        /\ ~anim.flowing

\* the part of C30 that holds: a text of the basic plane
C30_BasicPlaneWrittenOnce ==
    (/\ HiSurrogate \notin Range(anim.text)
     /\ LoSurrogate \notin Range(anim.text)) => C30_TextWrittenOnce

\* the return key pressed after the first of three characters
C30_Witness ==
    /\ anim.at = "done"
    /\ anim.text = <<"a", "b", "a">>
    /\ anim.chunks = <<<<"a">>, <<"b", "a">>, <<NL>>>>

====
